---- MODULE Spec2Model ----
(***************************************************************************)
(* Model of the music web server (src/src/main.rs): the shared AppState    *)
(* (the songs table behind the SqlitePool and the mutex-guarded visit      *)
(* counter) and the five routes served over it.                            *)
(*                                                                         *)
(* Text is a sequence of one-character strings, so that LOWER and LIKE are *)
(* computed character by character as SQLite computes them.  An            *)
(* Option<String> is <<>> for None (SQL NULL) and <<text>> for Some(text). *)
(*                                                                         *)
(* Three specifications share the state: SpecCount (GET /count requests    *)
(* in flight together), SpecPlay (GET /songs/play requests in flight       *)
(* together, among adds and searches) and Spec (the song routes served one *)
(* request at a time, over the full sets of bodies and queries).  A store  *)
(* fault (sqlx returning Err for a reason other than a constraint) is an   *)
(* input of every statement.                                               *)
(***************************************************************************)
EXTENDS Integers, Sequences, FiniteSets, Bags, TLC

\* ------------------------------------------------------------------ bounds
\* Rows the table may hold before the model stops accepting inserts.
MaxSongs == 2
\* Largest play_count the model lets a row reach.
MaxPlays == 2
\* Requests that may be in flight at once (tasks at an await point).
MaxReq == 3
\* Of these, the ones that may be GET /songs/play requests.
MaxPlayers == 2
\* Largest value the model lets the visit counter reach.
MaxVisits == 5

Req == 1..MaxReq

\* ------------------------------------------------------------------ state
VARIABLES
    songs,             \* the rows of table songs, in rowid order
    site_visit_count,  \* AppState.site_visit_count, the value inside the Mutex
    lock,              \* the task holding the Mutex (0: nobody)
    reqs,              \* reqs[r]: what in-flight request r is, and where it waits
    out,               \* the last response written to a client, with its request
    visits,            \* history: the counts reported by /count, in reply order
    added,             \* history: the rows POST /songs/new has returned
    played             \* history: per id, the play_counts /songs/play has returned

vars == <<songs, site_visit_count, lock, reqs, out, visits, added, played>>

None == <<>>
Some(x) == <<x>>
IsSome(o) == Len(o) = 1
Unwrap(o) == o[1]

Idle == [handler |-> "none", pc |-> "idle", segment |-> <<>>, song_id |-> 0]

\* What a client sent: the fields of a JSON body or query string (None when
\* absent), or the {id} segment of the path.
Request(id, title, artist, genre, play_count, segment) ==
    [id |-> id, title |-> title, artist |-> artist, genre |-> genre,
     play_count |-> play_count, segment |-> segment]

NoRequest == Request(None, None, None, None, None, <<>>)
PathRequest(segment) == Request(None, None, None, None, None, segment)

\* A row of table songs / a Song serialized into a response.
Row(id, title, artist, genre, play_count) ==
    [id |-> id, title |-> title, artist |-> artist, genre |-> genre,
     play_count |-> play_count]

NoSong == Row(0, None, None, None, 0)

\* A response: its status, the shape of its body (kind) and the body's content
\* (song for a Song, list for a Vec<Song>, n for the visit count), with the
\* route and the request (req) it answers.
Response(route, req, status, kind, song, list, n) ==
    [route |-> route, req |-> req, status |-> status, kind |-> kind,
     song |-> song, list |-> list, n |-> n]

NoResponse == Response("none", NoRequest, 0, "none", NoSong, <<>>, 0)

Init ==
    /\ songs = <<>>
    /\ site_visit_count = 0
    /\ lock = 0
    /\ reqs = [r \in Req |-> Idle]
    /\ out = NoResponse
    /\ visits = <<>>
    /\ added = <<>>
    /\ played = EmptyBag

\* ------------------------------------------------------------- GET /count
\* Count requests received and not yet answered.
CountInFlight == Cardinality({r \in Req : reqs[r].handler = "increment_count"})

\* tokio::sync::Mutex: lock().await completes only while nobody holds it.
\* (MutexFreeBroken: a counter with no lock around it.)
MutexFreeBroken == TRUE
MutexFree == lock = 0

\* The router hands a GET /count to increment_count.
CountReceive(r) ==
    /\ reqs[r] = Idle
    /\ site_visit_count + CountInFlight < MaxVisits
    /\ reqs' = [reqs EXCEPT ![r] = [Idle EXCEPT !.handler = "increment_count", !.pc = "lock"]]
    /\ UNCHANGED <<songs, site_visit_count, lock, out, visits, added, played>>

\* let mut inc_count = state.site_visit_count.lock().await;
CountLock(r) ==
    /\ reqs[r].handler = "increment_count"
    /\ reqs[r].pc = "lock"
    /\ MutexFree
    /\ lock' = r
    /\ reqs' = [reqs EXCEPT ![r].pc = "increment"]
    /\ UNCHANGED <<songs, site_visit_count, out, visits, added, played>>

\* *inc_count += 1;
CountIncrement(r) ==
    /\ reqs[r].handler = "increment_count"
    /\ reqs[r].pc = "increment"
    /\ site_visit_count' = site_visit_count + 1
    /\ reqs' = [reqs EXCEPT ![r].pc = "format"]
    /\ UNCHANGED <<songs, lock, out, visits, added, played>>

\* format!("Visit count: {}", inc_count); the guard is dropped on return.
CountReply(r) ==
    /\ reqs[r].handler = "increment_count"
    /\ reqs[r].pc = "format"
    /\ out' = Response("/count", NoRequest, 200, "visit_count", NoSong, <<>>, site_visit_count)
    /\ visits' = Append(visits, site_visit_count)
    /\ lock' = IF lock = r THEN 0 ELSE lock
    /\ reqs' = [reqs EXCEPT ![r] = Idle]
    /\ UNCHANGED <<songs, site_visit_count, added, played>>

increment_count(r) ==
    \/ CountReceive(r)
    \/ CountLock(r)
    \/ CountIncrement(r)
    \/ CountReply(r)

NextCount == \E r \in Req : increment_count(r)

SpecCount == Init /\ [][NextCount]_vars

\* ------------------------------------------------------------------ GET /
welcome ==
    /\ out' = Response("/", NoRequest, 200, "welcome", NoSong, <<>>, 0)
    /\ UNCHANGED <<songs, site_visit_count, lock, reqs, visits, added, played>>

\* ------------------------------------------------------- the songs table
\* CREATE TABLE songs: title, artist and genre are TEXT NOT NULL.
\* (NotNullBroken: the columns declared without NOT NULL.)
NotNullBroken(title, artist, genre) == TRUE
NotNull(title, artist, genre) == IsSome(title) /\ IsSome(artist) /\ IsSome(genre)

\* id INTEGER PRIMARY KEY with no value bound: SQLite gives the new row the
\* largest rowid in the table plus one, and 1 in an empty table.
\* (NextRowidBroken: every row given the same id.)
MaxId(rows) == IF rows = <<>> THEN 0
               ELSE CHOOSE m \in {rows[i].id : i \in 1..Len(rows)} :
                        \A i \in 1..Len(rows) : rows[i].id <= m
NextRowidBroken(rows) == 1
NextRowid(rows) == MaxId(rows) + 1

\* play_count INTEGER DEFAULT 0: the INSERT names no play_count.
DefaultPlayCount == 0

\* INSERT INTO songs(title, artist, genre) VALUES (?, ?, ?) RETURNING ...:
\* ok is FALSE on a constraint violation, which leaves the table as it was;
\* returned holds the rows the statement yields.
Insert(rows, title, artist, genre) ==
    IF ~NotNull(title, artist, genre)
    THEN [ok |-> FALSE, rows |-> rows, returned |-> <<>>]
    ELSE LET new == Row(NextRowid(rows), title, artist, genre, DefaultPlayCount)
         IN  [ok |-> TRUE, rows |-> Append(rows, new), returned |-> <<new>>]

\* SET play_count = play_count+1
\* (BumpBroken: SET play_count = 1.)
BumpBroken(row) == [row EXCEPT !.play_count = 1]
Bump(row) == [row EXCEPT !.play_count = row.play_count + 1]

\* UPDATE songs SET play_count = play_count+1 WHERE ID = ? RETURNING ...:
\* one statement, which SQLite runs atomically; the rows returned are the
\* updated ones.
\* (UpdateStale: the rows returned as they were before the update;
\* UpdateWrongWhere: WHERE ID >= ?; UpdateNoWhere: every row updated.)
UpdateStale(rows, song_id) ==
    LET new == [i \in 1..Len(rows) |->
                   IF rows[i].id = song_id THEN Bump(rows[i]) ELSE rows[i]]
        Hit(row) == row.id = song_id
    IN  [ok |-> TRUE, rows |-> new, returned |-> SelectSeq(rows, Hit)]
UpdateWrongWhere(rows, song_id) ==
    LET new == [i \in 1..Len(rows) |->
                   IF rows[i].id >= song_id THEN Bump(rows[i]) ELSE rows[i]]
        Hit(row) == row.id >= song_id
    IN  [ok |-> TRUE, rows |-> new, returned |-> SelectSeq(new, Hit)]
UpdateNoWhere(rows, song_id) ==
    LET new == [i \in 1..Len(rows) |-> Bump(rows[i])]
        Hit(row) == row.id = song_id
    IN  [ok |-> TRUE, rows |-> new, returned |-> SelectSeq(new, Hit)]
Update(rows, song_id) ==
    LET new == [i \in 1..Len(rows) |->
                   IF rows[i].id = song_id THEN Bump(rows[i]) ELSE rows[i]]
        Hit(row) == row.id = song_id
    IN  [ok |-> TRUE, rows |-> new, returned |-> SelectSeq(new, Hit)]

\* SQLite's LOWER(): the ASCII upper-case letters fold, everything else stays.
LowerChar(c) == CASE c = "A" -> "a" [] c = "B" -> "b" [] OTHER -> c
LOWER(text) == [i \in 1..Len(text) |-> LowerChar(text[i])]

\* SQLite's LIKE with no ESCAPE: % matches any run of characters, _ matches
\* any one character, any other character matches itself without regard to
\* ASCII case.
RECURSIVE LIKE(_, _)
LIKE(text, pattern) ==
    IF pattern = <<>> THEN text = <<>>
    ELSE IF Head(pattern) = "%"
         THEN LIKE(text, Tail(pattern)) \/ (text # <<>> /\ LIKE(Tail(text), pattern))
         ELSE /\ text # <<>>
              /\ \/ Head(pattern) = "_"
                 \/ LowerChar(Head(pattern)) = LowerChar(Head(text))
              /\ LIKE(Tail(text), Tail(pattern))

\* A column of a row by its name; LOWER(NULL) LIKE x is NULL, which selects
\* no row.
Column(row, name) ==
    CASE name = "title" -> row.title
      [] name = "artist" -> row.artist
      [] name = "genre" -> row.genre

\* ------------------------------------------------------- request inputs
\* Text a client may send as a title, artist or genre of a new song.
AddTitles == {<<"A", "b">>, <<"a", "_">>}
AddArtists == {<<"b">>}
AddGenres == {<<"%">>}

Optional(S) == {None} \cup {Some(x) : x \in S}

\* A request either carries no id and no play_count or carries both.
Carried == {<<None, None>>, <<Some(9), Some(9)>>}

\* JSON bodies of POST /songs/new: any field may be absent.
Bodies ==
    {Request(c[1], t, a, g, c[2], <<>>) :
        c \in Carried, t \in Optional(AddTitles), a \in Optional(AddArtists),
        g \in Optional(AddGenres)}

\* Query strings of GET /songs/search: any field may be absent.
Queries ==
    {Request(c[1], t, a, g, c[2], <<>>) :
        c \in Carried, t \in Optional(AddTitles \cup {<<"a", "B">>}),
        a \in Optional(AddArtists), g \in Optional(AddGenres)}

\* struct Song as a request: id and play_count are skip_deserializing, so
\* whatever the client sent for them is dropped.
SkipDeserializing(field) == None
Deserialize(input) ==
    [id |-> SkipDeserializing(input.id), title |-> input.title,
     artist |-> input.artist, genre |-> input.genre,
     play_count |-> SkipDeserializing(input.play_count)]

\* ------------------------------------------------------- POST /songs/new
\* fault: the pool or the connection fails, and sqlx returns Err before the
\* statement has run.
add_song(body, fault) ==
    LET payload == Deserialize(body)
        result == IF fault THEN [ok |-> FALSE, rows |-> songs, returned |-> <<>>]
                  ELSE Insert(songs, payload.title, payload.artist, payload.genre)
    IN  /\ result.ok => Len(songs) < MaxSongs
        /\ songs' = result.rows
        /\ IF result.ok /\ result.returned # <<>>
           THEN /\ out' = Response("/songs/new", body, 200, "song",
                                   result.returned[1], <<>>, 0)
                /\ added' = Append(added, result.returned[1])
           ELSE /\ out' = Response("/songs/new", body, 200, "string", NoSong, <<>>, 0)
                /\ UNCHANGED added
        /\ UNCHANGED <<site_visit_count, lock, reqs, visits, played>>

\* ---------------------------------------------------- GET /songs/search
\* where_exprs: one predicate per field present, title then artist then genre.
WhereExprs(params) ==
    (IF IsSome(params.title) THEN <<"title">> ELSE <<>>)
    \o (IF IsSome(params.artist) THEN <<"artist">> ELSE <<>>)
    \o (IF IsSome(params.genre) THEN <<"genre">> ELSE <<>>)

\* format!("%{}%", value)
Wildcard(value) == <<"%">> \o value \o <<"%">>

\* The values bound to the ?s, in the order of the query.bind calls.
\* (BindsBroken: the binds made genre first, title last.)
BindsBroken(params) ==
    (IF IsSome(params.genre) THEN <<Wildcard(Unwrap(params.genre))>> ELSE <<>>)
    \o (IF IsSome(params.artist) THEN <<Wildcard(Unwrap(params.artist))>> ELSE <<>>)
    \o (IF IsSome(params.title) THEN <<Wildcard(Unwrap(params.title))>> ELSE <<>>)
Binds(params) ==
    (IF IsSome(params.title) THEN <<Wildcard(Unwrap(params.title))>> ELSE <<>>)
    \o (IF IsSome(params.artist) THEN <<Wildcard(Unwrap(params.artist))>> ELSE <<>>)
    \o (IF IsSome(params.genre) THEN <<Wildcard(Unwrap(params.genre))>> ELSE <<>>)

\* SELECT * FROM songs WHERE LOWER(c1) LIKE LOWER(?) AND ...: the k-th ? takes
\* the k-th bound value; with no predicate every row is selected.
Select(rows, params) ==
    LET exprs == WhereExprs(params)
        binds == Binds(params)
        Matches(row) ==
            \A k \in 1..Len(exprs) :
                /\ IsSome(Column(row, exprs[k]))
                /\ LIKE(LOWER(Unwrap(Column(row, exprs[k]))), LOWER(binds[k]))
    IN  SelectSeq(rows, Matches)

search_song(query, fault) ==
    LET params == Deserialize(query)
    IN  /\ IF fault
           THEN out' = Response("/songs/search", query, 200, "string", NoSong, <<>>, 0)
           ELSE out' = Response("/songs/search", query, 200, "songs", NoSong,
                                Select(songs, params), 0)
        /\ UNCHANGED <<songs, site_visit_count, lock, reqs, visits, added, played>>

\* ------------------------------------------------- GET /songs/play/{id}
\* Path<i64>: the path segment parsed as str::parse::<i64> parses it, an
\* optional sign and then decimal digits.
DigitValue(c) ==
    CASE c = "0" -> 0 [] c = "1" -> 1 [] c = "2" -> 2 [] c = "3" -> 3
      [] c = "4" -> 4 [] c = "5" -> 5 [] c = "6" -> 6 [] c = "7" -> 7
      [] c = "8" -> 8 [] c = "9" -> 9 [] OTHER -> -1

RECURSIVE Digits(_, _)
Digits(text, acc) ==
    IF text = <<>> THEN acc
    ELSE Digits(Tail(text), 10 * acc + DigitValue(Head(text)))

AllDigits(text) ==
    text # <<>> /\ \A i \in 1..Len(text) : DigitValue(text[i]) >= 0

ParseI64(segment) ==
    IF segment # <<>> /\ Head(segment) \in {"+", "-"}
    THEN IF AllDigits(Tail(segment))
         THEN Some((IF Head(segment) = "-" THEN -1 ELSE 1) * Digits(Tail(segment), 0))
         ELSE None
    ELSE IF AllDigits(segment) THEN Some(Digits(segment, 0)) ELSE None

DigitChar(n) ==
    CASE n = 0 -> "0" [] n = 1 -> "1" [] n = 2 -> "2" [] n = 3 -> "3"
      [] n = 4 -> "4" [] n = 5 -> "5" [] n = 6 -> "6" [] n = 7 -> "7"
      [] n = 8 -> "8" [] n = 9 -> "9"

\* Path segments a client may send: the ids the table can hold, an id it
\* never holds, and two segments that are no integer.
Segments ==
    {<<DigitChar(i)>> : i \in 1..MaxSongs} \cup {<<"-", "1">>, <<"x">>, <<"1", "x">>}

Players == 1..MaxPlayers

\* Path<i64> fails on a segment that is no i64: the router answers 400 Bad
\* Request itself and play_song never runs.
\* (PathRejectionBroken: the rejection answered as play_song answers a miss.)
PathRejectionBroken(segment) ==
    /\ out' = Response("/songs/play/{id}", PathRequest(segment), 200, "error", NoSong, <<>>, 0)
    /\ UNCHANGED <<songs, site_visit_count, lock, reqs, visits, added, played>>
PathRejection(segment) ==
    /\ out' = Response("/songs/play/{id}", PathRequest(segment), 400, "rejection", NoSong,
                       <<>>, 0)
    /\ UNCHANGED <<songs, site_visit_count, lock, reqs, visits, added, played>>

\* The body of play_song: the UPDATE ... RETURNING statement and the response
\* built from its result (Some(s), None and Err(_)).
PlayQuery(segment, song_id, fault) ==
    LET result == IF fault THEN [ok |-> FALSE, rows |-> songs, returned |-> <<>>]
                  ELSE Update(songs, song_id)
    IN  /\ \A i \in 1..Len(songs) :
               (songs[i].id = song_id /\ ~fault) => songs[i].play_count < MaxPlays
        /\ songs' = result.rows
        /\ IF result.ok /\ result.returned # <<>>
           THEN /\ out' = Response("/songs/play/{id}", PathRequest(segment), 200, "song",
                                   result.returned[1], <<>>, 0)
                /\ played' = played (+) SetToBag({<<song_id, result.returned[1].play_count>>})
           ELSE /\ out' = Response("/songs/play/{id}", PathRequest(segment), 200, "error",
                                   NoSong, <<>>, 0)
                /\ UNCHANGED played
        /\ UNCHANGED <<site_visit_count, lock, visits, added>>

\* A whole GET /songs/play/{id} request, served with no other in between.
play_song(segment, fault) ==
    LET song_id == ParseI64(segment)
    IN  IF IsSome(song_id)
        THEN PlayQuery(segment, Unwrap(song_id), fault) /\ UNCHANGED reqs
        ELSE PathRejection(segment)

\* The same request as a task among others: it is received (the path is
\* extracted), waits at fetch_optional(pool).await, and then runs its statement.
PlayReceive(r, segment) ==
    LET song_id == ParseI64(segment)
    IN  /\ reqs[r] = Idle
        /\ IF IsSome(song_id)
           THEN /\ reqs' = [reqs EXCEPT ![r] = [handler |-> "play_song", pc |-> "query",
                                                segment |-> segment,
                                                song_id |-> Unwrap(song_id)]]
                /\ UNCHANGED <<songs, site_visit_count, lock, out, visits, added, played>>
           ELSE PathRejection(segment)

PlayComplete(r, fault) ==
    /\ reqs[r].handler = "play_song"
    /\ reqs[r].pc = "query"
    /\ PlayQuery(reqs[r].segment, reqs[r].song_id, fault)
    /\ reqs' = [reqs EXCEPT ![r] = Idle]

\* ------------------------------------------------------ specifications
\* The song routes, one request at a time.
Next ==
    \/ welcome
    \/ \E body \in Bodies, fault \in BOOLEAN : add_song(body, fault)
    \/ \E query \in Queries, fault \in BOOLEAN : search_song(query, fault)
    \/ \E segment \in Segments, fault \in BOOLEAN : play_song(segment, fault)

Spec == Init /\ [][Next]_vars

\* Concurrent GET /songs/play/{id} requests, mixed with adds and searches.
PlayBodies ==
    {b \in Bodies : b.id = None /\ b.play_count = None /\ b.title # Some(<<"A", "b">>)}
PlayQueries == {q \in Queries : q.title = None /\ q.artist = None /\ q.play_count = None}

NextPlay ==
    \/ \E body \in PlayBodies, fault \in BOOLEAN : add_song(body, fault)
    \/ \E query \in PlayQueries, fault \in BOOLEAN : search_song(query, fault)
    \/ \E r \in Players, segment \in Segments : PlayReceive(r, segment)
    \/ \E r \in Players, fault \in BOOLEAN : PlayComplete(r, fault)

SpecPlay == Init /\ [][NextPlay]_vars

\* ------------------------------------------------------------------ claims
\* C1: the counter starts at 0, each /count request increments it exactly
\* once, and the k-th request answered reports k: the values reported are
\* pairwise distinct and are exactly 1..N after N requests.
C1_CountDistinct ==
    /\ \A k \in 1..Len(visits) : visits[k] = k
    /\ \A r \in Req : reqs[r].pc = "format" => site_visit_count = Len(visits) + 1
    /\ (\A r \in Req : reqs[r].pc # "format") => site_visit_count = Len(visits)

\* Two requests have been answered while another waits for the lock that a
\* third holds.
C1_Witness ==
    /\ Len(visits) >= 2
    /\ \E r \in Req : reqs[r].pc = "lock"
    /\ \E r \in Req : reqs[r].pc = "format"

PlayRoute == "/songs/play/{id}"
Exists(song_id) == \E i \in 1..Len(songs) : songs[i].id = song_id

\* C2: a play request on an id the table holds, whose statement the store
\* runs, adds exactly 1 to that row's play_count, answers with that row as it
\* now is, and changes nothing else: not the row's id, title, artist or genre,
\* and no other row.
C2_PlayIncrements ==
    [][\A r \in Players :
          (PlayComplete(r, FALSE) /\ Exists(reqs[r].song_id)) =>
              /\ Len(songs') = Len(songs)
              /\ \A i \in 1..Len(songs) :
                    IF songs[i].id = reqs[r].song_id
                    THEN /\ songs'[i].play_count = songs[i].play_count + 1
                         /\ songs'[i].id = songs[i].id
                         /\ songs'[i].title = songs[i].title
                         /\ songs'[i].artist = songs[i].artist
                         /\ songs'[i].genre = songs[i].genre
                         /\ out'.status = 200
                         /\ out'.kind = "song"
                         /\ out'.song = songs'[i]
                    ELSE songs'[i] = songs[i]]_vars

\* The second play of song 1 has been answered, beside another song.
C2_Witness ==
    /\ Len(songs) = 2
    /\ out.route = PlayRoute
    /\ out.kind = "song"
    /\ out.song.id = 1
    /\ out.song.play_count = 2

\* C3: a play request on an id no row has is answered with the error object
\* and leaves the table as it was.
C3_PlayMissing ==
    [][\A r \in Players, fault \in BOOLEAN :
          (PlayComplete(r, fault) /\ ~Exists(reqs[r].song_id)) =>
              /\ out'.status = 200
              /\ out'.kind = "error"
              /\ songs' = songs]_vars

\* A play of an absent id has been answered while the table holds rows.
C3_Witness ==
    /\ Len(songs) >= 1
    /\ out.route = PlayRoute
    /\ out.kind = "error"
    /\ out.req.segment = <<"-", "1">>

AllPresent(input) == input.title # None /\ input.artist # None /\ input.genre # None

\* C4: an add request with title, artist and genre present, whose statement
\* the store runs, appends exactly one row and answers with it: the submitted
\* title, artist and genre, play_count 0, and a positive id no earlier row has.
C4_AddReturnsRow ==
    [][LET body == out'.req IN
          (out'.route = "/songs/new" /\ AllPresent(body) /\ add_song(body, FALSE)) =>
              /\ Len(songs') = Len(songs) + 1
              /\ \A i \in 1..Len(songs) : songs'[i] = songs[i]
              /\ out'.status = 200
              /\ out'.kind = "song"
              /\ out'.song = songs'[Len(songs')]
              /\ out'.song.title = body.title
              /\ out'.song.artist = body.artist
              /\ out'.song.genre = body.genre
              /\ out'.song.play_count = 0
              /\ out'.song.id > 0
              /\ \A i \in 1..Len(songs) : songs[i].id # out'.song.id]_vars

\* A second song has been added and returned.
C4_Witness ==
    /\ Len(songs) = 2
    /\ out.route = "/songs/new"
    /\ out.kind = "song"
    /\ out.song = songs[2]

\* C5: whatever requests are served, absent fields included, every row has an
\* id no other row has and a title, artist and genre that are not NULL, and
\* no row is dropped or changes its id.
C5_RowsWellFormed ==
    /\ [](\A i \in 1..Len(songs) :
            /\ songs[i].title # None
            /\ songs[i].artist # None
            /\ songs[i].genre # None
            /\ \A j \in 1..Len(songs) : songs[i].id = songs[j].id => i = j)
    /\ [][/\ Len(songs') >= Len(songs)
          /\ \A i \in 1..Len(songs) : songs'[i].id = songs[i].id]_vars

\* An add with no title has been refused while the table holds two rows.
C5_Witness ==
    /\ Len(songs) = 2
    /\ out.route = "/songs/new"
    /\ out.kind = "string"
    /\ out.req.title = None
    /\ out.req.artist # None

\* value occurs in text as a run of characters, ASCII case apart.
ContainsIgnoreCase(text, value) ==
    \E k \in 0..(Len(text) - Len(value)) :
        \A i \in 1..Len(value) : LowerChar(text[k + i]) = LowerChar(value[i])

\* A row satisfies a filter when the filter is absent or its value occurs in
\* the row's column, ASCII case apart.
Satisfies(column, filter) ==
    filter = None \/ (column # None /\ ContainsIgnoreCase(Unwrap(column), Unwrap(filter)))

\* C6: a search answers with exactly the rows that satisfy every filter
\* supplied, each on its own column, as a case-insensitive substring.
C6_SearchIsSubstringMatch ==
    (out.route = "/songs/search" /\ out.kind = "songs") =>
        LET Wanted(row) ==
                /\ Satisfies(row.title, out.req.title)
                /\ Satisfies(row.artist, out.req.artist)
                /\ Satisfies(row.genre, out.req.genre)
        IN  out.list = SelectSeq(songs, Wanted)

IsInteger(segment) ==
    LET digits == IF segment # <<>> /\ segment[1] \in {"+", "-"}
                  THEN Tail(segment) ELSE segment
    IN  /\ digits # <<>>
        /\ \A i \in 1..Len(digits) :
               digits[i] \in {"0", "1", "2", "3", "4", "5", "6", "7", "8", "9"}

\* C8: a row starts with play_count 0 whatever the request carried, its
\* play_count never goes down, and it changes only when a play request on
\* that row's id is answered with the row.
C8_PlayCountMonotone ==
    [][\A i \in 1..Len(songs') :
          IF i > Len(songs)
          THEN songs'[i].play_count = 0
          ELSE /\ songs'[i].play_count >= songs[i].play_count
               /\ songs'[i].play_count # songs[i].play_count =>
                      /\ out'.route = PlayRoute
                      /\ out'.kind = "song"
                      /\ IsInteger(out'.req.segment)
                      /\ Digits(out'.req.segment, 0) = songs[i].id]_vars

\* A song whose request carried an id and a play_count has been added with
\* play_count 0, beside a song that has been played.
C8_Witness ==
    /\ out.route = "/songs/new"
    /\ out.kind = "song"
    /\ out.req.play_count = Some(9)
    /\ out.song.play_count = 0
    /\ out.song.id # 9
    /\ \E i \in 1..Len(songs) : songs[i].play_count > 0

\* C9 as stated: every play request, a malformed id included, is answered
\* with status 200 and either the song or the error object.
C9_AlwaysOk ==
    out.route = PlayRoute => (out.status = 200 /\ out.kind \in {"song", "error"})

\* C9 amended: a play request whose id is an integer is answered with status
\* 200, with the updated song when a row has that id and the statement runs,
\* and with the error object when no row has it or the query fails; a request
\* whose id is no integer is answered with 400 and changes nothing.
C9_IntegerIdsOk ==
    [][\A r \in Players :
          /\ \A segment \in Segments :
                (PlayReceive(r, segment) /\ ~IsInteger(segment)) =>
                    (out'.status = 400 /\ songs' = songs /\ reqs' = reqs)
          /\ \A segment \in Segments :
                (PlayReceive(r, segment) /\ IsInteger(segment)) =>
                    (reqs'[r].handler = "play_song" /\ out' = out)
          /\ \A fault \in BOOLEAN :
                PlayComplete(r, fault) =>
                    /\ out'.status = 200
                    /\ IF ~fault /\ Exists(reqs[r].song_id)
                       THEN out'.kind = "song" /\ out'.song.id = reqs[r].song_id
                       ELSE out'.kind = "error" /\ songs' = songs]_vars

\* A malformed id has been rejected while the table holds a row.
C9_Witness ==
    /\ Len(songs) >= 1
    /\ out.route = PlayRoute
    /\ out.status = 400

\* The play_counts returned so far by plays of one id.
PlayedOf(song_id) == {p \in BagToSet(played) : p[1] = song_id}

\* C10: under any interleaving of play requests, every play answered with the
\* song is counted: a row's play_count is the number of such answers for its
\* id, and no two of them carry the same play_count.
C10_NoLostPlay ==
    \A i \in 1..Len(songs) :
        /\ Cardinality(PlayedOf(songs[i].id)) = songs[i].play_count
        /\ \A p \in PlayedOf(songs[i].id) : CopiesIn(p, played) = 1

\* A play of song 1 has been answered with the song while another play of
\* song 1 is still in flight.
C10_Witness ==
    /\ Len(songs) = 2
    /\ Cardinality(PlayedOf(1)) = 1
    /\ out.route = PlayRoute
    /\ out.kind = "song"
    /\ out.req.segment = <<"1">>
    /\ \E r \in Players : reqs[r].pc = "query" /\ reqs[r].song_id = 1

====
